---------------------------- MODULE Spec2Model ----------------------------
(***************************************************************************)
(* A model of survey_response_upload.py: the CSV loader                    *)
(* (load_survey_data, get_projmemid_fieldname) and the upload driver       *)
(* (surv_upload) with the remote Open Humans store it talks to.            *)
(*                                                                         *)
(* Strings whose characters the program inspects (CSV cell values matched  *)
(* against RE_ID, operator answers passed through upper()) are sequences   *)
(* of one-character strings.  Column names are plain strings: the program  *)
(* only compares them and tests them for emptiness.                        *)
(*                                                                         *)
(* The CSV file and the operator's answers are inputs: they are fixed per  *)
(* behaviour but revealed as the program reads them (rows, eof, answers    *)
(* record what has been revealed); a later read of the same position       *)
(* returns the same content.                                               *)
(***************************************************************************)
EXTENDS Integers, Sequences, FiniteSets, TLC

VARIABLES
    hasHeader,      \* csv.Sniffer().has_header(first 1024 bytes) of the file
    fieldnames,     \* the file's first line, as csv.DictReader.fieldnames
    rows,           \* the file's data rows revealed so far, in file order
    eof,            \* TRUE once the file is known to end after Len(rows) rows
    answers,        \* the operator's answers revealed so far, in prompt order
    pc,             \* position of the run in the program
    error,          \* the exception that ended the run ("none" if none)
    firstrow,       \* get_projmemid_fieldname: firstrow
    fi,             \* get_projmemid_fieldname: position of the for loop
    prompts,        \* prompts issued by input() in this run, in order
    id_fieldname,   \* <<>> for None, <<name>> for a column name
    row_count,      \* load_survey_data: row_count
    loaded_data,    \* load_survey_data: loaded_data (the local dict)
    returned,       \* surv_upload: loaded_data, <<>> until the loader returns
    project_data,   \* proj.project_data, the listing fetched at line 119
    todo,           \* keys of the dataset the for loop has not yet visited
    projmemid,      \* surv_upload: projmemid of the current iteration
    requests,       \* network calls issued in this run, in order
    log,            \* logging calls of this run, in order
    store,          \* the remote store: per project member, its files
    run             \* number of the current run of the program

vars == <<hasHeader, fieldnames, rows, eof, answers, pc, error, firstrow, fi,
          prompts, id_fieldname, row_count, loaded_data, returned,
          project_data, todo, projmemid, requests, log, store, run>>

inputVars == <<hasHeader, fieldnames>>
inferVars == <<firstrow, fi, prompts, id_fieldname>>
uploadVars == <<project_data, todo, projmemid, requests, log, store>>

-----------------------------------------------------------------------------
(* Bounds of the model.                                                    *)

\* Data rows of the CSV file, at most.
MaxRows == 3
\* Consecutive runs of the program on the same input, at most.
MaxRuns == 2

-----------------------------------------------------------------------------
(* Helpers.                                                                *)

Range(s) == {s[i] : i \in 1..Len(s)}

\* list.index(x): the first position of x.
Index(s, x) == CHOOSE i \in 1..Len(s) : s[i] = x /\ \A j \in 1..(i-1) : s[j] # x

\* The position whose value dict(zip(keys, values)) keeps for key x: the last.
LastIndex(s, x) == CHOOSE i \in 1..Len(s) : s[i] = x /\ \A j \in (i+1)..Len(s) : s[j] # x

\* Python's None, where a variable of the model holds no value yet.
None == <<"None">>

EmptyDict == [k \in {} |-> None]

\* d[k] = v on a dict: insert or overwrite.
DictSet(d, k, v) == [x \in (DOMAIN d) \cup {k} |-> IF x = k THEN v ELSE d[x]]

-----------------------------------------------------------------------------
(* Program constants.                                                      *)

Digits == {"0", "1", "2", "3", "4", "5", "6", "7", "8", "9"}

\* RE_ID = '^[0-9]{8}$': the repetition count.
IdLen == 8

UPLOAD_FILENAME == "survey-data.json"

\* The status code the upload is reported successful for.
HTTP_CREATED == 201

\* re.match(RE_ID, v) for a string v.  '^' and re.match anchor at the start,
\* [0-9]{8} takes eight ASCII digits, and '$' (no re.MULTILINE) matches at
\* the end of the string and also just before a newline that ends it.
MatchesReId(v) ==
    /\ Len(v) \in {IdLen, IdLen + 1}
    /\ \A i \in 1..IdLen : v[i] \in Digits
    /\ Len(v) = IdLen + 1 => v[IdLen + 1] = "\n"

\* str.upper() of one character, over the letters the answers use.
UpperChar(c) ==
    CASE c = "y" -> "Y"
      [] c = "e" -> "E"
      [] c = "s" -> "S"
      [] c = "n" -> "N"
      [] OTHER -> c

Upper(s) == [i \in 1..Len(s) |-> UpperChar(s[i])]

\* response.upper() in ['Y', 'YES']
IsYes(response) == Upper(response) \in {<<"Y">>, <<"Y", "E", "S">>}

\* `if id_fieldname:` None and the empty string are false.
Truthy(f) == f # <<>> /\ f[1] # ""

\* One row as csv.DictReader yields it: dict(zip(fieldnames, row)), where a
\* later column overwrites an earlier one of the same name.
DictRow(row) == [n \in Range(fieldnames) |-> row[LastIndex(fieldnames, n)]]

-----------------------------------------------------------------------------
(* Inputs.                                                                 *)

IdA == <<"1", "2", "3", "4", "5", "6", "7", "8">>
IdB == <<"8", "7", "6", "5", "4", "3", "2", "1">>
Id7 == <<"1", "2", "3", "4", "5", "6", "7">>
IdANl == IdA \o <<"\n">>
CellYes == <<"y", "e", "s">>
CellNo == <<"n", "o">>

\* Headers: two distinct names, an unnamed first or second column, and a
\* repeated name.
LoadHeaders == {<<"id", "resp">>, <<"", "resp">>, <<"id", "">>, <<"id", "id">>}
LoadCells == {IdA, IdB, Id7, IdANl}
LoadResponses == {<<"y">>, <<"Y", "e", "s">>, <<"n">>, <<"y", "e">>}

UploadHeaders == {<<"id", "resp">>}
UploadResponses == {<<"Y">>, <<"n">>}

\* The rows a file with the given header may hold: one cell per column.
\* (Blank lines are skipped by the reader and never seen; files with ragged
\* rows are not among the inputs.)
RowsOver(cells) == [1..Len(fieldnames) -> cells]

LoadRows == RowsOver(LoadCells)
UploadRows == {<<IdA, CellYes>>, <<IdA, CellNo>>, <<IdB, CellYes>>, <<Id7, CellNo>>}

\* What a read of data row i can return: <<r>> for a row r, <<>> at the end
\* of the file.
ReadChoices(i, rowset) ==
    IF i <= Len(rows) THEN {<<rows[i]>>}
    ELSE IF eof THEN {<<>>}
    ELSE {<<>>} \cup (IF Len(rows) < MaxRows THEN {<<r>> : r \in rowset} ELSE {})

\* The file as known after that read.
Reveal(i, got) ==
    /\ rows' = (IF got # <<>> /\ i > Len(rows) THEN Append(rows, got[1]) ELSE rows)
    /\ eof' = (eof \/ got = <<>>)

\* What input() can return at the k-th prompt of a run.
AnswerChoices(k, responses) ==
    IF k <= Len(answers) THEN {answers[k]} ELSE responses

-----------------------------------------------------------------------------
(* The program.                                                            *)

Raise(kind) ==
    /\ pc' = "error"
    /\ error' = kind
    /\ loaded_data' = EmptyDict

\* load_survey_data, lines 65-67: the header check.
CheckHeader ==
    /\ pc = "start"
    /\ IF hasHeader
       THEN pc' = "firstrow" /\ UNCHANGED <<error, loaded_data>>
       ELSE Raise("NoHeader")
    /\ UNCHANGED <<inputVars, rows, eof, answers, inferVars, row_count,
                   returned, uploadVars, run>>

\* get_projmemid_fieldname, lines 41-44: firstrow = next(reader).
ReadFirstRow(rowset) ==
    /\ pc = "firstrow"
    /\ \E got \in ReadChoices(1, rowset) :
        /\ Reveal(1, got)
        /\ IF got = <<>>
           THEN Raise("StopIteration") /\ UNCHANGED firstrow
           ELSE /\ firstrow' = DictRow(got[1])
                /\ pc' = "scan"
                /\ UNCHANGED <<error, loaded_data>>
    /\ fi' = 1
    /\ id_fieldname' = <<>>
    /\ UNCHANGED <<inputVars, answers, prompts, row_count, returned,
                   uploadVars, run>>

\* get_projmemid_fieldname, lines 45-53: one iteration of the for loop over
\* reader.fieldnames.
ScanField(responses) ==
    /\ pc = "scan"
    /\ fi <= Len(fieldnames)
    /\ LET fieldname == fieldnames[fi]
           value == firstrow[fieldname]
       IN  IF MatchesReId(value)
           THEN \E response \in AnswerChoices(Len(prompts) + 1, responses) :
                /\ answers' = (IF Len(prompts) + 1 > Len(answers)
                               THEN Append(answers, response) ELSE answers)
                /\ prompts' = Append(prompts,
                                [idx |-> Index(fieldnames, fieldname),
                                 fieldname |-> fieldname,
                                 pos |-> fi,
                                 response |-> response])
                /\ IF IsYes(response)
                   THEN id_fieldname' = <<fieldname>>
                        /\ fi' = Len(fieldnames) + 1
                   ELSE UNCHANGED id_fieldname /\ fi' = fi + 1
                /\ UNCHANGED <<pc, error, loaded_data>>
           ELSE /\ fi' = fi + 1
                /\ UNCHANGED <<answers, prompts, id_fieldname, pc, error,
                               loaded_data>>
    /\ UNCHANGED <<inputVars, rows, eof, firstrow, row_count, returned,
                   uploadVars, run>>

\* get_projmemid_fieldname, lines 55-59, and load_survey_data, lines 70-74.
ReturnFieldname ==
    /\ pc = "scan"
    /\ fi > Len(fieldnames)
    /\ IF Truthy(id_fieldname)
       THEN /\ pc' = "load"
            /\ loaded_data' = EmptyDict
            /\ UNCHANGED error
       ELSE Raise("NoIdColumn")
    /\ row_count' = 0
    /\ UNCHANGED <<inputVars, rows, eof, answers, inferVars, returned,
                   uploadVars, run>>

\* LoadRow as it would be if a malformed row were skipped instead of raising.
LoadRowSkipsMalformed(rowset) ==
    /\ pc = "load"
    /\ \E got \in ReadChoices(row_count + 1, rowset) :
        /\ Reveal(row_count + 1, got)
        /\ IF got = <<>>
           THEN /\ returned' = <<loaded_data>>
                /\ pc' = "fetch"
                /\ UNCHANGED <<error, loaded_data, row_count>>
           ELSE LET row == DictRow(got[1])
                    value == row[id_fieldname[1]]
                IN  /\ row_count' = row_count + 1
                    /\ UNCHANGED returned
                    /\ IF MatchesReId(value)
                       THEN /\ loaded_data' = DictSet(loaded_data, value, row)
                            /\ UNCHANGED <<pc, error>>
                       ELSE UNCHANGED <<pc, error, loaded_data>>
    /\ UNCHANGED <<inputVars, answers, inferVars, uploadVars, run>>

\* load_survey_data, lines 75-85: one iteration of the for loop over the
\* reader, or the return once the reader is exhausted.
LoadRow(rowset) ==
    /\ pc = "load"
    /\ \E got \in ReadChoices(row_count + 1, rowset) :
        /\ Reveal(row_count + 1, got)
        /\ IF got = <<>>
           THEN /\ returned' = <<loaded_data>>
                /\ pc' = "fetch"
                /\ UNCHANGED <<error, loaded_data, row_count>>
           ELSE LET row == DictRow(got[1])
                    value == row[id_fieldname[1]]
                IN  /\ row_count' = row_count + 1
                    /\ UNCHANGED returned
                    /\ IF MatchesReId(value)
                       THEN /\ loaded_data' = DictSet(loaded_data, value, row)
                            /\ UNCHANGED <<pc, error>>
                       ELSE Raise("MalformedRow")
    /\ UNCHANGED <<inputVars, answers, inferVars, uploadVars, run>>

\* The source a file uploaded by this project carries in the listing, and a
\* source the member shares with the project.
ProjectSource == "direct-sharing-1"
SharedSource == "fitbit"
OtherBasename == "notes.txt"

File(b, s) == [basename |-> b, source |-> s]
Files == {File(b, s) : b \in {UPLOAD_FILENAME, OtherBasename},
                       s \in {ProjectSource, SharedSource}}

\* A member's files on the remote store: how many copies of each file.
Holding(fs) == [f \in Files |-> IF f \in fs THEN 1 ELSE 0]

\* What the listing shows for a member: the `data` list (as the set of its
\* entries) and `sources_shared`.
MemberData(m) ==
    [data |-> {f \in Files : store[m][f] > 0},
     sources_shared |-> {SharedSource}]

\* ohapi.OHProject(...).project_data: one entry per project member.
Listing == [m \in DOMAIN store |-> MemberData(m)]

\* CurrProjectData as it would be without the sources_shared filter.
CurrProjectDataUnfiltered(member_data) ==
    {f.basename : f \in member_data.data}

\* Lines 134-135: the keys of curr_project_data (its values are never read).
CurrProjectData(member_data) ==
    {f.basename : f \in {g \in member_data.data :
                            g.source \notin member_data.sources_shared}}

\* The remote store after a delete request that takes effect: the project's
\* files of that basename are gone for that member.
Deleted(m, basename) ==
    [store EXCEPT ![m] = [f \in Files |->
        IF f = File(basename, ProjectSource) THEN 0 ELSE store[m][f]]]

\* The remote store after an upload answered 201: one more project file.
Uploaded(m, basename) ==
    [store EXCEPT ![m][File(basename, ProjectSource)] = @ + 1]

Statuses == {HTTP_CREATED, 500}

\* The network calls, each with what came of it: `raised` when the HTTP layer
\* raised instead of returning, `effective` when the store deleted, `status`
\* of a response.
ListCall(raised) == [kind |-> "list", raised |-> raised]

DeleteCall(m, raised, effective) ==
    [kind |-> "delete", project_member_id |-> m,
     file_basename |-> UPLOAD_FILENAME, raised |-> raised,
     effective |-> effective]

UploadCall(m, status) ==
    [kind |-> "upload", project_member_id |-> m, filename |-> UPLOAD_FILENAME,
     data_file |-> returned[1][m], raised |-> FALSE, status |-> status]

UploadCallRaised(m) ==
    [kind |-> "upload", project_member_id |-> m, filename |-> UPLOAD_FILENAME,
     data_file |-> returned[1][m], raised |-> TRUE]

\* Line 119: proj = ohapi.OHProject(...), which fetches the listing.
FetchListing ==
    /\ pc = "fetch"
    /\ requests' = Append(requests, ListCall(FALSE))
    /\ project_data' = Listing
    /\ todo' = DOMAIN returned[1]
    /\ pc' = "loop"
    /\ UNCHANGED <<inputVars, rows, eof, answers, error, inferVars, row_count,
                   loaded_data, returned, projmemid, log, store, run>>

\* Line 119, the HTTP layer raising: nothing catches it.
FetchRaises ==
    /\ pc = "fetch"
    /\ requests' = Append(requests, ListCall(TRUE))
    /\ pc' = "error"
    /\ error' = "Transport"
    /\ UNCHANGED <<inputVars, rows, eof, answers, inferVars, row_count,
                   loaded_data, returned, project_data, todo, projmemid, log,
                   store, run>>

\* NextMember as it would be without the lookup in the listing.
NextMemberNoSkip ==
    /\ pc = "loop"
    /\ todo # {}
    /\ \E p \in todo :
        /\ todo' = todo \ {p}
        /\ projmemid' = p
        /\ pc' = "upload"
        /\ UNCHANGED log
    /\ UNCHANGED <<inputVars, rows, eof, answers, error, inferVars, row_count,
                   loaded_data, returned, project_data, requests, store, run>>

\* NextMember as it would be without the delete of the current file.
NextMemberNeverDeletes ==
    /\ pc = "loop"
    /\ todo # {}
    /\ \E p \in todo :
        /\ todo' = todo \ {p}
        /\ projmemid' = p
        /\ IF p \notin DOMAIN project_data
           THEN /\ log' = Append(log, [level |-> "info", event |-> "skip",
                                       projmemid |-> p])
                /\ pc' = "loop"
           ELSE /\ pc' = "upload"
                /\ UNCHANGED log
    /\ UNCHANGED <<inputVars, rows, eof, answers, error, inferVars, row_count,
                   loaded_data, returned, project_data, requests, store, run>>

\* Lines 122-138: the for loop takes the next key of the dataset (in the
\* dict's order, which the model leaves open), looks it up in the listing
\* and either skips it or decides whether a delete comes first.
NextMember ==
    /\ pc = "loop"
    /\ todo # {}
    /\ \E p \in todo :
        /\ todo' = todo \ {p}
        /\ projmemid' = p
        /\ IF p \notin DOMAIN project_data
           THEN /\ log' = Append(log, [level |-> "info", event |-> "skip",
                                       projmemid |-> p])
                /\ pc' = "loop"
           ELSE /\ pc' = (IF UPLOAD_FILENAME \in CurrProjectData(project_data[p])
                          THEN "delete" ELSE "upload")
                /\ UNCHANGED log
    /\ UNCHANGED <<inputVars, rows, eof, answers, error, inferVars, row_count,
                   loaded_data, returned, project_data, requests, store, run>>

\* Lines 139-145: the delete request returns; its response is discarded, so
\* the program goes on the same way whether or not the store deleted.
Delete ==
    /\ pc = "delete"
    /\ log' = Append(log, [level |-> "info", event |-> "deleting",
                           projmemid |-> projmemid])
    /\ \E effective \in BOOLEAN :
        /\ requests' = Append(requests, DeleteCall(projmemid, FALSE, effective))
        /\ store' = (IF effective THEN Deleted(projmemid, UPLOAD_FILENAME)
                     ELSE store)
    /\ pc' = "upload"
    /\ UNCHANGED <<inputVars, rows, eof, answers, error, inferVars, row_count,
                   loaded_data, returned, project_data, todo, projmemid, run>>

\* Lines 144-145, the HTTP layer raising.
DeleteRaises ==
    /\ pc = "delete"
    /\ requests' = Append(requests, DeleteCall(projmemid, TRUE, FALSE))
    /\ log' = Append(log, [level |-> "info", event |-> "deleting",
                           projmemid |-> projmemid])
    /\ pc' = "error"
    /\ error' = "Transport"
    /\ UNCHANGED <<inputVars, rows, eof, answers, inferVars, row_count,
                   loaded_data, returned, project_data, todo, projmemid,
                   store, run>>

\* Upload as it would be if a status other than 201 were retried.
UploadRetriesOnFailure ==
    /\ pc = "upload"
    /\ \E status \in Statuses :
        /\ requests' = Append(requests, UploadCall(projmemid, status))
        /\ store' = (IF status = HTTP_CREATED
                     THEN Uploaded(projmemid, UPLOAD_FILENAME) ELSE store)
        /\ log' = log \o
            << [level |-> "info", event |-> "uploading", projmemid |-> projmemid],
               IF status = HTTP_CREATED
               THEN [level |-> "info", event |-> "complete", projmemid |-> projmemid]
               ELSE [level |-> "warning", event |-> "upload error",
                     projmemid |-> projmemid] >>
        /\ pc' = (IF status = HTTP_CREATED \/ Len(requests) >= 6
                  THEN "loop" ELSE "upload")
    /\ UNCHANGED <<inputVars, rows, eof, answers, error, inferVars, row_count,
                   loaded_data, returned, project_data, todo, projmemid, run>>

\* Upload as it would be if a status other than 201 raised.
UploadRaisesOnFailure ==
    /\ pc = "upload"
    /\ \E status \in Statuses :
        /\ requests' = Append(requests, UploadCall(projmemid, status))
        /\ store' = (IF status = HTTP_CREATED
                     THEN Uploaded(projmemid, UPLOAD_FILENAME) ELSE store)
        /\ log' = log \o
            << [level |-> "info", event |-> "uploading", projmemid |-> projmemid],
               IF status = HTTP_CREATED
               THEN [level |-> "info", event |-> "complete", projmemid |-> projmemid]
               ELSE [level |-> "warning", event |-> "upload error",
                     projmemid |-> projmemid] >>
        /\ pc' = (IF status = HTTP_CREATED THEN "loop" ELSE "error")
        /\ error' = (IF status = HTTP_CREATED THEN error ELSE "HTTPError")
    /\ UNCHANGED <<inputVars, rows, eof, answers, inferVars, row_count,
                   loaded_data, returned, project_data, todo, projmemid, run>>

\* Lines 147-168: the upload request returns a status; 201 is reported as
\* success, anything else as a warning, and the loop goes on.
Upload ==
    /\ pc = "upload"
    /\ \E status \in Statuses :
        /\ requests' = Append(requests, UploadCall(projmemid, status))
        /\ store' = (IF status = HTTP_CREATED
                     THEN Uploaded(projmemid, UPLOAD_FILENAME) ELSE store)
        /\ log' = log \o
            << [level |-> "info", event |-> "uploading", projmemid |-> projmemid],
               IF status = HTTP_CREATED
               THEN [level |-> "info", event |-> "complete", projmemid |-> projmemid]
               ELSE [level |-> "warning", event |-> "upload error",
                     projmemid |-> projmemid] >>
        /\ pc' = "loop"
    /\ UNCHANGED <<inputVars, rows, eof, answers, error, inferVars, row_count,
                   loaded_data, returned, project_data, todo, projmemid, run>>

\* Lines 155-160, the HTTP layer raising.
UploadRaises ==
    /\ pc = "upload"
    /\ requests' = Append(requests, UploadCallRaised(projmemid))
    /\ log' = Append(log, [level |-> "info", event |-> "uploading",
                           projmemid |-> projmemid])
    /\ pc' = "error"
    /\ error' = "Transport"
    /\ UNCHANGED <<inputVars, rows, eof, answers, inferVars, row_count,
                   loaded_data, returned, project_data, todo, projmemid,
                   store, run>>

\* Line 122, the dataset exhausted: surv_upload returns.
Finish ==
    /\ pc = "loop"
    /\ todo = {}
    /\ pc' = "done"
    /\ UNCHANGED <<inputVars, rows, eof, answers, error, inferVars, row_count,
                   loaded_data, returned, uploadVars, run>>

\* Lines 172-173: the program is run again on the same file, with the same
\* operator answers, against the store as the last run left it.
RunAgain ==
    /\ pc \in {"done", "error"}
    /\ run < MaxRuns
    /\ run' = run + 1
    /\ pc' = "start"
    /\ error' = "none"
    /\ firstrow' = EmptyDict
    /\ fi' = 1
    /\ prompts' = <<>>
    /\ id_fieldname' = <<>>
    /\ row_count' = 0
    /\ loaded_data' = EmptyDict
    /\ returned' = <<>>
    /\ project_data' = EmptyDict
    /\ todo' = {}
    /\ projmemid' = None
    /\ requests' = <<>>
    /\ log' = <<>>
    /\ UNCHANGED <<inputVars, rows, eof, answers, store>>

-----------------------------------------------------------------------------
(* Specification of the loader alone.                                      *)

InitRun ==
    /\ rows = <<>>
    /\ eof = FALSE
    /\ answers = <<>>
    /\ pc = "start"
    /\ error = "none"
    /\ firstrow = EmptyDict
    /\ fi = 1
    /\ prompts = <<>>
    /\ id_fieldname = <<>>
    /\ row_count = 0
    /\ loaded_data = EmptyDict
    /\ returned = <<>>
    /\ project_data = EmptyDict
    /\ todo = {}
    /\ projmemid = None
    /\ requests = <<>>
    /\ log = <<>>
    /\ run = 1

InitLoad ==
    /\ hasHeader \in BOOLEAN
    /\ fieldnames \in LoadHeaders
    /\ store = EmptyDict
    /\ InitRun

ReadFirstRowLoad == ReadFirstRow(LoadRows)
ScanFieldLoad == ScanField(LoadResponses)
LoadRowLoad == LoadRow(LoadRows)

NextLoad ==
    \/ CheckHeader
    \/ ReadFirstRowLoad
    \/ ScanFieldLoad
    \/ ReturnFieldname
    \/ LoadRowLoad

SpecLoad == InitLoad /\ [][NextLoad]_vars

-----------------------------------------------------------------------------
(* Specification of the whole program.                                     *)

Members == {IdA, IdB}

\* What a member holds when the first run starts.
InitHoldings ==
    { {}, {File(UPLOAD_FILENAME, ProjectSource)},
      {File(UPLOAD_FILENAME, SharedSource), File(OtherBasename, ProjectSource)} }

Init ==
    /\ hasHeader \in BOOLEAN
    /\ fieldnames \in UploadHeaders
    /\ \E ms \in (SUBSET Members) \ {{}} :
         store \in [ms -> {Holding(fs) : fs \in InitHoldings}]
    /\ InitRun

ReadFirstRowUpload == ReadFirstRow(UploadRows)
ScanFieldUpload == ScanField(UploadResponses)
LoadRowUpload == LoadRow(UploadRows)

Next ==
    \/ CheckHeader
    \/ ReadFirstRowUpload
    \/ ScanFieldUpload
    \/ ReturnFieldname
    \/ LoadRowUpload
    \/ FetchListing
    \/ FetchRaises
    \/ NextMember
    \/ Delete
    \/ DeleteRaises
    \/ Upload
    \/ UploadRaises
    \/ Finish
    \/ RunAgain

Spec == Init /\ [][Next]_vars

-----------------------------------------------------------------------------
(* Vocabulary of the properties.                                           *)

\* Exactly eight digits 0-9.
IsEightDigits(v) == Len(v) = IdLen /\ \A i \in 1..Len(v) : v[i] \in Digits

\* The prompts the operator answered Y or YES, in any letter case.
YesPrompts == {k \in 1..Len(prompts) : Upper(prompts[k].response) \in
                                          {<<"Y">>, <<"Y", "E", "S">>}}

FirstYes == CHOOSE k \in YesPrompts : \A j \in YesPrompts : k <= j

\* The cell of data row i in the column called name, as the reader yields it.
Cell(i, name) == DictRow(rows[i])[name]

\* The column scan of get_projmemid_fieldname is over: it returned or raised
\* its own error.
ScanOver == pc \notin {"start", "firstrow", "scan"} /\ fi > Len(fieldnames)

\* load_survey_data is over: it returned or raised.
LoadOver == pc \in {"fetch", "error"}

\* The mapping with one entry per distinct value of the column called name,
\* each the last row of the file that carries the value.
LastRowWins(name) ==
    [k \in {Cell(i, name) : i \in 1..Len(rows)} |->
        LET last == CHOOSE i \in 1..Len(rows) :
                        /\ Cell(i, name) = k
                        /\ \A j \in (i+1)..Len(rows) : Cell(j, name) # k
        IN  DictRow(rows[last])]

-----------------------------------------------------------------------------
(* Properties of the loader, checked under SpecLoad.                       *)

\* C1: whenever the file has a detected header and the operator confirmed a
\* column that holds an 8-digit value in every row, load_survey_data returns,
\* and returns the mapping with exactly one entry per distinct value of that
\* column, each entry the last row of the file carrying the value.
C1_LoadReturnsLastRowPerId ==
    ( /\ LoadOver
      /\ hasHeader
      /\ YesPrompts # {}
      /\ \A i \in 1..Len(rows) :
            LET v == Cell(i, prompts[FirstYes].fieldname)
            IN  IsEightDigits(v) )
    => ( /\ pc = "fetch"
         /\ returned = <<LastRowWins(prompts[FirstYes].fieldname)>> )

\* C2: whenever some row of the file has, in the identifier column, a value
\* that is not exactly eight digits, load_survey_data returns no mapping: a
\* returned mapping means every row's identifier is exactly eight digits.
C2_MalformedIdNeverReturns ==
    (pc = "fetch" /\ returned # <<>>)
    => \A i \in 1..Len(rows) :
            LET v == Cell(i, id_fieldname[1])
            IN  IsEightDigits(v)

\* C4: get_projmemid_fieldname prompts only for columns whose first-row value
\* matches the pattern, in column order and at most once per column, and for
\* every such column when nothing is confirmed; no prompt follows a
\* confirmation; once the scan is over it has returned the first column
\* answered Y or YES, and that column's first-row value matches the pattern;
\* and it has raised 'Unable to determine column with project member ID.'
\* when no column was confirmed.
C4_ColumnInference ==
    /\ \A k \in 1..Len(prompts) :
            /\ prompts[k].fieldname = fieldnames[prompts[k].pos]
            /\ MatchesReId(firstrow[prompts[k].fieldname])
    /\ \A k \in 1..Len(prompts) : \A j \in 1..(k-1) :
            prompts[j].pos < prompts[k].pos
    /\ YesPrompts \subseteq {Len(prompts)}
    /\ (ScanOver /\ YesPrompts # {}) =>
            /\ error # "NoIdColumn"
            /\ id_fieldname = <<prompts[FirstYes].fieldname>>
            /\ MatchesReId(firstrow[id_fieldname[1]])
    /\ (ScanOver /\ YesPrompts = {}) =>
            /\ pc = "error" /\ error = "NoIdColumn"
            /\ \A c \in 1..Len(fieldnames) :
                  MatchesReId(firstrow[fieldnames[c]])
                  => \E k \in 1..Len(prompts) : prompts[k].pos = c

-----------------------------------------------------------------------------
(* Properties of the whole program, checked under Spec.                    *)

\* The positions in requests of the calls of a kind that carry an identifier.
CallsFor(kind, p) ==
    {i \in 1..Len(requests) :
        requests[i].kind = kind /\ requests[i].project_member_id = p}

WriteCalls == {i \in 1..Len(requests) : requests[i].kind \in {"delete", "upload"}}

\* The listing shows, for member p, a file named UPLOAD_FILENAME whose source
\* is not one of p's shared sources.
OwnsFile(p) ==
    \E f \in project_data[p].data :
        f.basename = UPLOAD_FILENAME /\ f.source \notin project_data[p].sources_shared

\* The identifiers of the dataset the for loop has taken up so far.
Visited ==
    IF \E i \in 1..Len(requests) : requests[i] = ListCall(FALSE)
    THEN (DOMAIN returned[1]) \ todo
    ELSE {}

\* The iteration for p is past its upload request.
PastUpload(p) == p \in Visited /\ ~(projmemid = p /\ pc \in {"delete", "upload"})

Copies(p) == store[p][File(UPLOAD_FILENAME, ProjectSource)]

\* C3: a network call of a run is issued only after the whole file has been
\* loaded: the header was detected, a column was confirmed, every row of the
\* file was read and matched the pattern, and the loader returned.  A run
\* that ends in one of the loader's errors has issued no network call.
C3_LoadBeforeNetwork ==
    /\ requests # <<>> =>
            /\ hasHeader
            /\ YesPrompts # {}
            /\ eof /\ row_count = Len(rows)
            /\ \A i \in 1..Len(rows) : MatchesReId(Cell(i, prompts[FirstYes].fieldname))
            /\ returned # <<>>
    /\ error \in {"NoHeader", "NoIdColumn", "MalformedRow"} => requests = <<>>

C3_Witness ==
    /\ pc = "error" /\ error = "MalformedRow"
    /\ row_count = 2 /\ Len(rows) = 2
    /\ requests = <<>>

\* C5: no delete and no upload request ever carries an identifier that is
\* absent from the listing; every such identifier the loop has taken up is
\* logged as skipped, and the loop is back at its head for the next one.
C5_AbsentMemberUntouched ==
    /\ \A i \in WriteCalls : requests[i].project_member_id \in DOMAIN project_data
    /\ \A p \in Visited : p \notin DOMAIN project_data =>
            /\ \E k \in 1..Len(log) : log[k] = [level |-> "info", event |-> "skip",
                                                projmemid |-> p]
            /\ CallsFor("delete", p) = {} /\ CallsFor("upload", p) = {}
            /\ projmemid = p => pc \in {"loop", "done"}

C5_Witness ==
    /\ pc = "done"
    /\ \E p \in DOMAIN returned[1] : p \notin DOMAIN project_data
    /\ \E q \in DOMAIN returned[1] : CallsFor("upload", q) # {}

\* C6: for an identifier of the dataset that the listing shows as owning a
\* file named UPLOAD_FILENAME, every upload request is preceded in the run by
\* a delete request for that identifier and file name that has returned; while
\* the delete is pending no upload for it has been issued; and once the
\* iteration is past its upload, the delete has been issued.
C6_DeletePrecedesUpload ==
    \A p \in DOMAIN project_data : OwnsFile(p) =>
        /\ \A j \in CallsFor("upload", p) :
                \E i \in CallsFor("delete", p) :
                    /\ i < j
                    /\ requests[i].file_basename = UPLOAD_FILENAME
                    /\ ~requests[i].raised
        /\ (projmemid = p /\ pc = "delete") => CallsFor("upload", p) = {}
        /\ PastUpload(p) => CallsFor("delete", p) # {}

C6_Witness ==
    /\ pc = "done"
    /\ \E p \in DOMAIN project_data :
        /\ OwnsFile(p)
        /\ \E i \in CallsFor("delete", p) : \E j \in CallsFor("upload", p) : i < j

\* C7: after the second run (same file, same answers) has finished, every
\* participant of the dataset holds at most one project file named
\* UPLOAD_FILENAME.
C7_AtMostOneFileAfterSecondRun ==
    (run = 2 /\ pc = "done") =>
        \A p \in (DOMAIN returned[1]) \cap (DOMAIN store) : Copies(p) <= 1

\* C8: a status other than 201 raises nothing and is not retried: the run is
\* never ended by an upload's status, no identifier gets a second upload
\* request, each non-201 status is logged as a warning, and a run that
\* finishes has issued exactly one upload request for every identifier of the
\* dataset that is in the listing.
C8_Non201ContinuesWithoutRetry ==
    /\ error \in {"none", "NoHeader", "StopIteration", "NoIdColumn",
                  "MalformedRow", "Transport"}
    /\ error = "Transport" => requests[Len(requests)].raised
    /\ \A i \in 1..Len(requests) :
            (requests[i].kind = "upload" /\ ~requests[i].raised) =>
                /\ CallsFor("upload", requests[i].project_member_id) = {i}
                /\ requests[i].status # HTTP_CREATED =>
                        \E k \in 1..Len(log) :
                            log[k] = [level |-> "warning", event |-> "upload error",
                                      projmemid |-> requests[i].project_member_id]
    /\ pc = "done" =>
            \A p \in (DOMAIN returned[1]) \cap (DOMAIN project_data) :
                Cardinality(CallsFor("upload", p)) = 1

C8_Witness ==
    /\ pc = "done"
    /\ \E i \in 1..Len(requests) : \E j \in 1..Len(requests) :
        /\ i < j
        /\ requests[i].kind = "upload" /\ requests[i].status # HTTP_CREATED
        /\ requests[j].kind = "upload"
        /\ requests[j].project_member_id # requests[i].project_member_id

\* C9: a delete request is issued for a participant only if the listing
\* fetched at the start of the run shows a file named UPLOAD_FILENAME whose
\* source is not among the participant's shared sources; a participant of the
\* listing without such a file gets no delete request, and has got exactly
\* one upload request once its iteration is past the upload.
C9_DeleteOnlyForOwnFile ==
    /\ \A i \in 1..Len(requests) : requests[i].kind = "delete" =>
            /\ requests[i].project_member_id \in DOMAIN project_data
            /\ OwnsFile(requests[i].project_member_id)
    /\ \A p \in Visited \cap DOMAIN project_data : ~OwnsFile(p) =>
            /\ CallsFor("delete", p) = {}
            /\ (projmemid = p => pc # "delete")
            /\ PastUpload(p) => Cardinality(CallsFor("upload", p)) = 1

C9_Witness ==
    /\ pc = "done"
    /\ \E p \in DOMAIN project_data :
        /\ File(UPLOAD_FILENAME, SharedSource) \in project_data[p].data
        /\ ~OwnsFile(p)
        /\ CallsFor("upload", p) # {} /\ CallsFor("delete", p) = {}
    /\ \E q \in DOMAIN project_data : CallsFor("delete", q) # {}

\* C10: when a participant's delete request took effect and the upload that
\* followed failed (a status other than 201, or the HTTP layer raising), the
\* participant holds no project file named UPLOAD_FILENAME for the rest of the
\* run, and the failed upload is the last request of the run that carries the
\* participant's identifier.
C10_FailedUploadLeavesNoFile ==
    \A i \in 1..Len(requests) : \A j \in 1..Len(requests) :
        ( /\ i < j
          /\ requests[i].kind = "delete" /\ requests[i].effective
          /\ requests[j].kind = "upload"
          /\ requests[j].project_member_id = requests[i].project_member_id
          /\ (requests[j].raised \/ requests[j].status # HTTP_CREATED) )
        => /\ Copies(requests[i].project_member_id) = 0
           /\ \A k \in WriteCalls :
                requests[k].project_member_id = requests[i].project_member_id
                    => k <= j

C10_Witness ==
    /\ pc = "done"
    /\ \E i \in 1..Len(requests) : \E j \in 1..Len(requests) :
        /\ i < j
        /\ requests[i].kind = "delete" /\ requests[i].effective
        /\ requests[j].kind = "upload" /\ ~requests[j].raised
        /\ requests[j].status # HTTP_CREATED
        /\ requests[j].project_member_id = requests[i].project_member_id
        /\ Copies(requests[i].project_member_id) = 0
        /\ j < Len(requests)

=============================================================================
